---- MODULE Spec2Model ----
(***************************************************************************)
(* A model of scripts/release.py: the release script that parses its       *)
(* command line, prepares a workspace directory, runs the external tools   *)
(* (git, make, bumpversion) in it one after the other and then checks the  *)
(* built documentation and the changelog against the current version.      *)
(*                                                                         *)
(* Strings the program compares are sequences of one-character strings, so *)
(* that `in`, `==` and `+ "\n"` are computed as Python computes them.      *)
(***************************************************************************)
EXTENDS Integers, Sequences, FiniteSets, TLC

\* Longest version string read from .bumpversion.cfg.
MaxVerLen == 1

\* Longest CHANGES.rst content, in characters.
MaxFileLen == 3

VARIABLES
    argv,              \* the command line, fixed for the run
    fs_at_start,       \* what was at the candidate workspace paths when the run began
    fs,                \* what is at them now
    pc,                \* the statement of main / __main__ to run next
    args,              \* self.args: <<>> before parse_args returns, else <<CLIArgs>>
    atexit_handlers,   \* callbacks given to atexit.register
    started,           \* steps of main started so far, in order
    runs,              \* subprocess.run calls so far: args and cwd
    clone_returncode,  \* returncode of the git clone subprocess, -1 before it ends
    config,            \* .bumpversion.cfg as last read by read_bump_version_config
    doc,               \* doc/_build/html when check_doc runs
    examined,          \* what check_doc looked at under doc/_build/html, in order
    changes_rst,       \* CHANGES.rst as opened by check_changelog
    raised,            \* the exception in flight, or the one that ended main
    caught,            \* whether the except UserError clause ran
    stderr,            \* what was written to sys.stderr
    exit_status        \* the process's exit status, -1 while it runs

vars == <<argv, fs_at_start, fs, pc, args, atexit_handlers, started, runs, clone_returncode,
          config, doc, examined, changes_rst, raised, caught, stderr, exit_status>>

----------------------------------------------------------------------------
\* Strings

NL == "\n"

RECURSIVE SeqsUpTo(_, _)
SeqsUpTo(S, n) ==
    IF n = 0 THEN {<<>>}
    ELSE LET shorter == SeqsUpTo(S, n - 1)
         IN  shorter \cup {Append(s, c) : s \in shorter, c \in S}

\* Python's `s in t` for strings.
Contains(t, s) ==
    \E i \in 0..(Len(t) - Len(s)) : SubSeq(t, i + 1, i + Len(s)) = s

\* Iterating a text file: each line keeps its "\n"; a last line that the file
\* does not end with "\n" is yielded without one.  (The texts here hold no
\* carriage return, so universal newlines leave them as they are.)
RECURSIVE FileLines(_)
FileLines(text) ==
    IF text = <<>> THEN <<>>
    ELSE LET ends == {i \in 1..Len(text) : text[i] = NL}
             cut  == IF ends = {} THEN Len(text)
                     ELSE CHOOSE i \in ends : \A j \in ends : i <= j
         IN  <<SubSeq(text, 1, cut)>> \o FileLines(SubSeq(text, cut + 1, Len(text)))

----------------------------------------------------------------------------
\* Exceptions

NoException == [type |-> "none", msg |-> "", arg |-> <<>>, code |-> 0]

UserError(msg, arg) == [type |-> "UserError", msg |-> msg, arg |-> arg, code |-> 0]

\* KeyError, FileNotFoundError, NotADirectoryError: anything that is not a
\* UserError and not SystemExit.
Fault(type) == [type |-> type, msg |-> "", arg |-> <<>>, code |-> 0]

SystemExit(code) == [type |-> "SystemExit", msg |-> "", arg |-> <<>>, code |-> code]

----------------------------------------------------------------------------
\* The command line and the files the program reads

Choices == {"major", "minor", "patch"}

\* tempfile.mkdtemp(prefix="release_py_"): a path that did not exist before.
TmpDir == "release_py_"

\* The path given with --work-dir.
GivenDir == "w"

Paths == {TmpDir, GivenDir}

\* An option is <<>> when it is not on the command line, else <<value>>.
Argvs ==
    [remote : {<<>>, <<"origin">>},
     branch : {<<>>, <<"master">>},
     work_dir : {<<>>, <<"">>, <<GivenDir>>},
     debug : BOOLEAN,
     help : BOOLEAN,
     release_type : {<<>>} \cup {<<c>> : c \in Choices \cup {"beta"}}]

VersionChars == {"1", "2"}

Versions == SeqsUpTo(VersionChars, MaxVerLen)

\* .bumpversion.cfg: whether the file is there, has a [bumpversion] section,
\* and has current_version in it.
Configs ==
    {[file |-> f, section |-> s, key |-> k, value |-> v] :
        f \in BOOLEAN, s \in BOOLEAN, k \in BOOLEAN, v \in Versions}

NoConfig == [file |-> FALSE, section |-> FALSE, key |-> FALSE, value |-> <<>>]

ConfigFiles ==
    {c \in Configs : /\ c.section => c.file
                     /\ c.key => c.section
                     /\ ~c.key => c.value = <<>>}

Documentation == <<" ", "d", "o", "c", "u", "m", "e", "n", "t", "a", "t", "i", "o", "n">>

\* Titles a documentation build may have put into changes.html.
HtmlTexts ==
    {<<>>} \cup
    {p \o v \o s : p \in {<<>>, <<" ">>, <<"v">>},
                   v \in Versions,
                   s \in {Documentation, SubSeq(Documentation, 1, Len(Documentation) - 1)}}

NoDoc == [html_is_dir |-> FALSE, index_is_file |-> FALSE,
          changes_is_file |-> FALSE, changes_html |-> <<>>]

DocTrees ==
    [html_is_dir : BOOLEAN, index_is_file : BOOLEAN,
     changes_is_file : BOOLEAN, changes_html : HtmlTexts]

\* doc/_build/html: files can only be inside an existing directory, and only
\* an existing changes.html has content.
DocInputs ==
    {t \in DocTrees : /\ t.index_is_file => t.html_is_dir
                      /\ t.changes_is_file => t.html_is_dir
                      /\ ~t.changes_is_file => t.changes_html = <<>>}

NoChanges == [exists |-> FALSE, text |-> <<>>]

ChangesInputs ==
    {NoChanges} \cup
    {[exists |-> TRUE, text |-> t] : t \in SeqsUpTo(VersionChars \cup {NL}, MaxFileLen)}

----------------------------------------------------------------------------
\* BumpVersion

\* A plausible slip: a missing version reported as a UserError.
get_current_version_user_error(cfg) ==
    IF cfg.file /\ cfg.section /\ cfg.key
    THEN [exc |-> NoException, value |-> cfg.value]
    ELSE [exc |-> UserError("current_version missing", <<>>), value |-> <<>>]

\* ConfigParser.read skips a missing file; config["bumpversion"] and
\* ["current_version"] raise KeyError when the section or the key is missing.
get_current_version(cfg) ==
    IF cfg.file /\ cfg.section /\ cfg.key
    THEN [exc |-> NoException, value |-> cfg.value]
    ELSE [exc |-> Fault("KeyError"), value |-> <<>>]

----------------------------------------------------------------------------
\* Application

\* What ArgumentParser.parse_args can do with the command line: return,
\* print help and exit 0, or print usage and exit 2.  -h acts when it is
\* reached, so with an invalid release type either may come first; missing
\* required arguments are only reported at the end of parsing.
argparse(a) ==
    LET bad_choice == a.release_type # <<>> /\ a.release_type[1] \notin Choices
        missing    == a.remote = <<>> \/ a.branch = <<>> \/ a.release_type = <<>>
    IN  IF a.help THEN {"help"} \cup (IF bad_choice THEN {"usage"} ELSE {})
        ELSE IF bad_choice \/ missing THEN {"usage"}
        ELSE {"ok"}

CLIArgs(a, wd) ==
    [remote |-> a.remote[1], branch |-> a.branch[1], work_dir |-> wd,
     debug |-> a.debug, release_type |-> a.release_type[1]]

\* A plausible slip: the cleanup is registered whether or not debug is set.
make_temp_dir_always_cleanup(a, f) ==
    [exc |-> NoException,
     fs |-> [f EXCEPT ![TmpDir] = "dir"],
     handlers |-> <<[fn |-> "shutil.rmtree", arg |-> TmpDir]>>,
     ret |-> <<CLIArgs(a, TmpDir)>>]

\* --work-dir not given: tempfile.mkdtemp, and its removal at exit unless debug.
\* (mkdtemp is taken to succeed.)
make_temp_dir(a, f) ==
    [exc |-> NoException,
     fs |-> [f EXCEPT ![TmpDir] = "dir"],
     handlers |-> IF ~a.debug THEN <<[fn |-> "shutil.rmtree", arg |-> TmpDir]>>
                  ELSE <<>>,
     ret |-> <<CLIArgs(a, TmpDir)>>]

\* A plausible slip: mkdir(exist_ok=True), so an existing directory is taken.
make_given_dir_exist_ok(a, f) ==
    LET p == a.work_dir[1]
    IN  IF f[p] = "noparent"
        THEN [exc |-> Fault("FileNotFoundError"), fs |-> f, handlers |-> <<>>, ret |-> <<>>]
        ELSE [exc |-> NoException,
              fs |-> IF f[p] = "absent" THEN [f EXCEPT ![p] = "dir"] ELSE f,
              handlers |-> <<>>, ret |-> <<CLIArgs(a, p)>>]

\* A plausible slip: FileExistsError becomes UserError whatever debug is.
make_given_dir_strict(a, f) ==
    LET p == a.work_dir[1]
    IN  IF f[p] = "absent"
        THEN [exc |-> NoException, fs |-> [f EXCEPT ![p] = "dir"],
              handlers |-> <<>>, ret |-> <<CLIArgs(a, p)>>]
        ELSE IF f[p] = "noparent"
        THEN [exc |-> Fault("FileNotFoundError"), fs |-> f, handlers |-> <<>>, ret |-> <<>>]
        ELSE [exc |-> UserError("Directory already exists: ", <<p>>), fs |-> f,
              handlers |-> <<>>, ret |-> <<>>]

\* --work-dir given: Path.mkdir raises FileExistsError for anything already at
\* the path, which is a UserError unless debug is set, and FileNotFoundError
\* when the parent directory is missing.
make_given_dir(a, f) ==
    LET p == a.work_dir[1]
    IN  IF f[p] = "absent"
        THEN [exc |-> NoException, fs |-> [f EXCEPT ![p] = "dir"],
              handlers |-> <<>>, ret |-> <<CLIArgs(a, p)>>]
        ELSE IF f[p] = "noparent"
        THEN [exc |-> Fault("FileNotFoundError"), fs |-> f, handlers |-> <<>>, ret |-> <<>>]
        ELSE IF ~a.debug
        THEN [exc |-> UserError("Directory already exists: ", <<p>>), fs |-> f,
              handlers |-> <<>>, ret |-> <<>>]
        ELSE [exc |-> NoException, fs |-> f, handlers |-> <<>>, ret |-> <<CLIArgs(a, p)>>]

\* A plausible slip: the temporary directory is made as the default of
\* --work-dir, before the command line is parsed, so a usage error leaves it
\* and its cleanup behind.
parse_args_mkdtemp_first(a, f, o) ==
    IF a.work_dir = <<>> \/ a.work_dir = <<"">>
    THEN IF o # "ok"
         THEN [exc |-> SystemExit(IF o = "help" THEN 0 ELSE 2),
               fs |-> [f EXCEPT ![TmpDir] = "dir"],
               handlers |-> IF ~a.debug
                            THEN <<[fn |-> "shutil.rmtree", arg |-> TmpDir]>>
                            ELSE <<>>,
               ret |-> <<>>]
         ELSE make_temp_dir(a, f)
    ELSE IF o # "ok"
    THEN [exc |-> SystemExit(IF o = "help" THEN 0 ELSE 2), fs |-> f,
          handlers |-> <<>>, ret |-> <<>>]
    ELSE make_given_dir(a, f)

\* parse_args, given what parser.parse_args() did (o): when it exited, nothing
\* else is done; when it returned, the workspace directory is made.  `not
\* args.work_dir` holds for a missing option and for an empty one.
parse_args(a, f, o) ==
    IF o # "ok"
    THEN [exc |-> SystemExit(IF o = "help" THEN 0 ELSE 2), fs |-> f,
          handlers |-> <<>>, ret |-> <<>>]
    ELSE IF a.work_dir = <<>> \/ a.work_dir = <<"">>
    THEN make_temp_dir(a, f)
    ELSE make_given_dir(a, f)

\* subprocess.run(args, cwd=str(self.work_dir)) without check=True: returns
\* the completed process whatever its returncode; raises when the executable
\* cannot be started, and always when cwd is not a directory.
run_in_workspace(cmd, wd, f) ==
    IF f[wd] # "dir"
    THEN {[exc |-> Fault("NotADirectoryError"), returncode |-> -1, cwd |-> wd]}
    ELSE {[exc |-> NoException, returncode |-> 0, cwd |-> wd],
          [exc |-> NoException, returncode |-> 1, cwd |-> wd],
          [exc |-> Fault("FileNotFoundError"), returncode |-> -1, cwd |-> wd]}

\* A plausible slip: the title is looked for without the space before it.
version_string_no_space(current_version) == current_version \o Documentation

\* f" {current_version} documentation"
version_string(current_version) == <<" ">> \o current_version \o Documentation

\* The paths check_doc examines, in order, until one is not what it should be.
check_doc(cfg, d) ==
    LET v == get_current_version(cfg)
    IN  IF v.exc # NoException
        THEN [exc |-> v.exc, examined |-> <<>>]
        ELSE IF ~d.html_is_dir
        THEN [exc |-> UserError("check-doc: No documentation build found", <<>>),
              examined |-> <<"html">>]
        ELSE IF ~d.index_is_file
        THEN [exc |-> UserError("check-doc: No documentation index.html found", <<>>),
              examined |-> <<"html", "index.html">>]
        ELSE IF ~d.changes_is_file
        THEN [exc |-> UserError("check-doc: No documentation changes.html found", <<>>),
              examined |-> <<"html", "index.html", "changes.html">>]
        ELSE IF ~Contains(d.changes_html, version_string(v.value))
        THEN [exc |-> UserError("check-doc: wrong title, title missing: ",
                                version_string(v.value)),
              examined |-> <<"html", "index.html", "changes.html", "read_text">>]
        ELSE [exc |-> NoException,
              examined |-> <<"html", "index.html", "changes.html", "read_text">>]

check_changelog(cfg, c) ==
    LET v == get_current_version(cfg)
        lines == FileLines(c.text)
    IN  IF v.exc # NoException THEN v.exc
        ELSE IF ~c.exists THEN Fault("FileNotFoundError")
        ELSE IF \E i \in 1..Len(lines) : lines[i] = v.value \o <<NL>>
        THEN NoException
        ELSE UserError("check-changelog: version missing from CHANGES.rst: ", v.value)

\* A plausible slip: the documentation is built before the old one is cleaned.
main_doc_before_clean ==
    <<"parse_args", "create_workspace", "initialize_workspace", "bump_version",
      "git show", "make doc", "make doc-clean", "make changes",
      "check_doc", "check_changelog">>

\* The statements of main, in program order.
main ==
    <<"parse_args", "create_workspace", "initialize_workspace", "bump_version",
      "git show", "make doc-clean", "make doc", "make changes",
      "check_doc", "check_changelog">>

\* Where control goes when a statement of main returns.
main_next(stmt) ==
    LET i == CHOOSE k \in 1..Len(main) : main[k] = stmt
    IN  IF i < Len(main) THEN main[i + 1] ELSE "toplevel"

\* The command line of each subprocess step.
command(stmt, cli) ==
    CASE stmt = "create_workspace" ->
            <<"git", "clone", "--branch", cli.branch, cli.remote, cli.work_dir>>
      [] stmt = "initialize_workspace" -> <<"make", "pre-release">>
      [] stmt = "bump_version" -> <<".venv/bin/bumpversion", cli.release_type>>
      [] stmt = "git show" -> <<"git", "--no-pager", "show", "HEAD">>
      [] stmt = "make doc-clean" -> <<"make", "doc-clean">>
      [] stmt = "make doc" -> <<"make", "doc">>
      [] stmt = "make changes" -> <<"make", "changes">>

\* A plausible slip: the UserError is printed but sys.exit(1) is left out.
toplevel_no_exit_1(exc, err) ==
    CASE exc.type \in {"none", "UserError"} ->
            [stderr |-> IF exc.type = "none" THEN err
                        ELSE Append(err, [kind |-> "message", msg |-> exc.msg,
                                          arg |-> exc.arg]),
             status |-> 0, caught |-> exc.type = "UserError"]
      [] exc.type = "SystemExit" -> [stderr |-> err, status |-> exc.code, caught |-> FALSE]
      [] OTHER ->
            [stderr |-> Append(err, [kind |-> "traceback", msg |-> exc.type, arg |-> <<>>]),
             status |-> 1, caught |-> FALSE]

\* The __main__ block and, for what it lets through, the interpreter: a
\* UserError is printed and becomes sys.exit(1); main returning None becomes
\* sys.exit(None), status 0; a SystemExit keeps its code; any other exception
\* is printed as a traceback and the interpreter exits with status 1.
toplevel(exc, err) ==
    CASE exc.type = "none" -> [stderr |-> err, status |-> 0, caught |-> FALSE]
      [] exc.type = "UserError" ->
            [stderr |-> Append(err, [kind |-> "message", msg |-> exc.msg, arg |-> exc.arg]),
             status |-> 1, caught |-> TRUE]
      [] exc.type = "SystemExit" -> [stderr |-> err, status |-> exc.code, caught |-> FALSE]
      [] OTHER ->
            [stderr |-> Append(err, [kind |-> "traceback", msg |-> exc.type, arg |-> <<>>]),
             status |-> 1, caught |-> FALSE]

\* The registered callbacks run at interpreter exit; shutil.rmtree removes
\* the directory it was registered with.
RECURSIVE run_exitfuncs(_, _)
run_exitfuncs(handlers, f) ==
    IF handlers = <<>> THEN f
    ELSE run_exitfuncs(SubSeq(handlers, 1, Len(handlers) - 1),
                       [f EXCEPT ![handlers[Len(handlers)].arg] = "absent"])

----------------------------------------------------------------------------
\* The run

PathStates == {"absent", "dir", "file", "noparent"}

Init ==
    /\ argv \in Argvs
    /\ fs \in {f \in [Paths -> PathStates] :
                  /\ f[TmpDir] = "absent"
                  /\ argv.work_dir # <<GivenDir>> => f[GivenDir] = "absent"}
    /\ fs_at_start = fs
    /\ pc = "parse_args"
    /\ args = <<>>
    /\ atexit_handlers = <<>>
    /\ started = <<>>
    /\ runs = <<>>
    /\ clone_returncode = -1
    /\ config = NoConfig
    /\ doc = NoDoc
    /\ examined = <<>>
    /\ changes_rst = NoChanges
    /\ raised = NoException
    /\ caught = FALSE
    /\ stderr = <<>>
    /\ exit_status = -1

Continue(stmt, exc) ==
    /\ raised' = exc
    /\ pc' = IF exc = NoException THEN main_next(stmt) ELSE "toplevel"

ParseArgs ==
    /\ pc = "parse_args"
    /\ started' = Append(started, "parse_args")
    /\ \E o \in argparse(argv) :
          LET r == parse_args(argv, fs, o)
          IN  /\ fs' = r.fs
              /\ atexit_handlers' = r.handlers
              /\ args' = r.ret
              /\ stderr' = IF o = "usage"
                           THEN Append(stderr, [kind |-> "usage", msg |-> "", arg |-> <<>>])
                           ELSE stderr
              /\ Continue("parse_args", r.exc)
    /\ UNCHANGED <<argv, fs_at_start, runs, clone_returncode, config, doc, examined,
                   changes_rst, caught, exit_status>>

SubprocessStep(stmt) ==
    /\ pc = stmt
    /\ started' = Append(started, stmt)
    /\ LET cmd == command(stmt, args[1])
       IN  \E out \in run_in_workspace(cmd, args[1].work_dir, fs) :
              /\ runs' = Append(runs, [args |-> cmd, cwd |-> out.cwd])
              /\ clone_returncode' = IF stmt = "create_workspace" THEN out.returncode
                                     ELSE clone_returncode
              /\ Continue(stmt, out.exc)
    /\ UNCHANGED <<argv, fs_at_start, fs, args, atexit_handlers, config, doc, examined,
                   changes_rst, caught, stderr, exit_status>>

CreateWorkspace == SubprocessStep("create_workspace")

InitializeWorkspace == SubprocessStep("initialize_workspace")

BumpVersion == SubprocessStep("bump_version")

GitShow == SubprocessStep("git show")

MakeDocClean == SubprocessStep("make doc-clean")

MakeDoc == SubprocessStep("make doc")

MakeChanges == SubprocessStep("make changes")

\* Each check reads .bumpversion.cfg and its artifacts anew; what is on disk
\* then is whatever the tools run before left there.
CheckDoc ==
    /\ pc = "check_doc"
    /\ started' = Append(started, "check_doc")
    /\ \E cfg \in ConfigFiles, d \in DocInputs :
          LET r == check_doc(cfg, d)
          IN  /\ config' = cfg
              /\ doc' = d
              /\ examined' = r.examined
              /\ Continue("check_doc", r.exc)
    /\ UNCHANGED <<argv, fs_at_start, fs, args, atexit_handlers, runs, clone_returncode,
                   changes_rst, caught, stderr, exit_status>>

CheckChangelog ==
    /\ pc = "check_changelog"
    /\ started' = Append(started, "check_changelog")
    /\ \E cfg \in ConfigFiles, c \in ChangesInputs :
          /\ config' = cfg
          /\ changes_rst' = c
          /\ Continue("check_changelog", check_changelog(cfg, c))
    /\ UNCHANGED <<argv, fs_at_start, fs, args, atexit_handlers, runs, clone_returncode,
                   doc, examined, caught, stderr, exit_status>>

TopLevel ==
    /\ pc = "toplevel"
    /\ LET r == toplevel(raised, stderr)
       IN  /\ stderr' = r.stderr
           /\ caught' = r.caught
           /\ exit_status' = r.status
    /\ pc' = "atexit"
    /\ UNCHANGED <<argv, fs_at_start, fs, args, atexit_handlers, started, runs,
                   clone_returncode, config, doc, examined, changes_rst, raised>>

AtExit ==
    /\ pc = "atexit"
    /\ fs' = run_exitfuncs(atexit_handlers, fs)
    /\ pc' = "exited"
    /\ UNCHANGED <<argv, fs_at_start, args, atexit_handlers, started, runs,
                   clone_returncode, config, doc, examined, changes_rst, raised, caught,
                   stderr, exit_status>>

Next ==
    \/ ParseArgs
    \/ CreateWorkspace
    \/ InitializeWorkspace
    \/ BumpVersion
    \/ GitShow
    \/ MakeDocClean
    \/ MakeDoc
    \/ MakeChanges
    \/ CheckDoc
    \/ CheckChangelog
    \/ TopLevel
    \/ AtExit

Spec == Init /\ [][Next]_vars

----------------------------------------------------------------------------
\* Properties

Exited == pc = "exited"

\* The run got past parser.parse_args().
Parsed == argparse(argv) = {"ok"}

Readable(cfg) == cfg.file /\ cfg.section /\ cfg.key

LastStarted == started[Len(started)]

\* A line without its trailing newline, if it has one.
Chomp(line) ==
    IF line # <<>> /\ line[Len(line)] = NL THEN SubSeq(line, 1, Len(line) - 1) ELSE line

\* The order of steps of section 4.5, by the method or command of each.
StepOrder ==
    <<"parse_args", "create_workspace", "initialize_workspace", "bump_version",
      "git show", "make doc-clean", "make doc", "make changes",
      "check_doc", "check_changelog">>

\* The subprocess of steps 2 to 8, for the parsed command line cli.
StepCommands(cli) ==
    << <<"git", "clone", "--branch", cli.branch, cli.remote, cli.work_dir>>,
       <<"make", "pre-release">>,
       <<".venv/bin/bumpversion", cli.release_type>>,
       <<"git", "--no-pager", "show", "HEAD">>,
       <<"make", "doc-clean">>,
       <<"make", "doc">>,
       <<"make", "changes">> >>

\* C1: the steps are started in the order ParseArgs, clone, make pre-release,
\* bumpversion <release_type>, git show HEAD, make doc-clean, make doc, make
\* changes, CheckDoc, CheckChangelog: what has been started is always an
\* initial part of that list (so none is started twice or out of turn), the
\* subprocesses run are those of the started steps, the statement to run next
\* is the one after the last started, and a run that ends with success has
\* started all ten.
C1_StepsInOrder ==
    /\ Len(started) <= Len(StepOrder)
    /\ started = SubSeq(StepOrder, 1, Len(started))
    /\ pc \notin {"toplevel", "atexit", "exited"} => pc = StepOrder[Len(started) + 1]
    /\ Len(runs) = IF Len(started) <= 1 THEN 0
                   ELSE IF Len(started) >= 8 THEN 7 ELSE Len(started) - 1
    /\ \A i \in 1..Len(runs) : runs[i].args = StepCommands(args[1])[i]
    /\ (Exited /\ raised = NoException) => started = StepOrder

C1_Witness ==
    /\ Exited
    /\ raised = NoException
    /\ exit_status = 0
    /\ started = StepOrder
    /\ Len(runs) = 7

\* C2: when --work-dir names a directory that exists, debug is off and the
\* command line parses, parse_args raises UserError and no subprocess is run.
C2_ExistingDirRefused ==
    (/\ Parsed
     /\ argv.work_dir = <<GivenDir>>
     /\ fs_at_start[GivenDir] = "dir"
     /\ ~argv.debug
     /\ started # <<>>)
    => /\ raised.type = "UserError"
       /\ started = <<"parse_args">>
       /\ runs = <<>>
       /\ clone_returncode = -1

C2_Witness ==
    /\ Parsed
    /\ argv.work_dir = <<GivenDir>>
    /\ fs_at_start[GivenDir] = "dir"
    /\ ~argv.debug
    /\ Exited
    /\ raised = UserError("Directory already exists: ", <<GivenDir>>)
    /\ runs = <<>>

\* C3: with --work-dir omitted, parse_args creates a temporary directory,
\* every subprocess has it as its working directory, and once the process has
\* exited (success, UserError or fault) the directory is gone when debug is
\* off and still there when debug is on.
C3_TempDirLifecycle ==
    (Parsed /\ argv.work_dir = <<>> /\ started # <<>>)
    => /\ fs_at_start[TmpDir] = "absent"
       /\ args # <<>> /\ args[1].work_dir = TmpDir
       /\ ~Exited => fs[TmpDir] = "dir"
       /\ \A i \in 1..Len(runs) : runs[i].cwd = TmpDir
       /\ Exited => fs[TmpDir] = IF argv.debug THEN "dir" ELSE "absent"

C3_Witness ==
    /\ Parsed
    /\ argv.work_dir = <<>>
    /\ ~argv.debug
    /\ Exited
    /\ raised.type = "KeyError"
    /\ Len(runs) = 7
    /\ \A i \in 1..Len(runs) : runs[i].cwd = TmpDir
    /\ fs[TmpDir] = "absent"

\* C4: given a readable version and a CHANGES.rst, check_changelog returns
\* without error if and only if some line of the file, without its trailing
\* newline if it has one, equals the version (a last line without newline
\* included); otherwise it raises UserError naming the version.
C4_ChangelogLineMatch ==
    (/\ Len(started) = 10
     /\ Readable(config)
     /\ changes_rst.exists)
    => LET lines == FileLines(changes_rst.text)
           match == \E i \in 1..Len(lines) : Chomp(lines[i]) = config.value
       IN  /\ raised = NoException <=> match
           /\ ~match => /\ raised.type = "UserError"
                        /\ raised.arg = config.value

\* C5: given a readable version, check_doc returns without error if and only
\* if doc/_build/html is a directory, index.html and changes.html are files
\* and changes.html contains " <version> documentation"; otherwise it raises
\* UserError with the message of the first of these that fails.
C5_CheckDoc ==
    (Len(started) = 9 /\ Readable(config))
    => LET dir     == doc.html_is_dir
           index   == doc.index_is_file
           changes == doc.changes_is_file
           title   == <<" ">> \o config.value \o Documentation
           titled  == Contains(doc.changes_html, title)
       IN  /\ raised = NoException <=> (dir /\ index /\ changes /\ titled)
           /\ ~dir => raised = UserError("check-doc: No documentation build found", <<>>)
           /\ (dir /\ ~index) =>
                raised = UserError("check-doc: No documentation index.html found", <<>>)
           /\ (dir /\ index /\ ~changes) =>
                raised = UserError("check-doc: No documentation changes.html found", <<>>)
           /\ (dir /\ index /\ changes /\ ~titled) =>
                raised = UserError("check-doc: wrong title, title missing: ", title)

\* Scenario B: the title is there with a prefixed version.
C5_Witness ==
    /\ Len(started) = 9
    /\ Readable(config)
    /\ config.value = <<"1">>
    /\ doc.index_is_file
    /\ doc.changes_html = <<"v", "1">> \o Documentation
    /\ raised.type = "UserError"
    /\ Exited

\* What C6 says of a UserError: it comes from parse_args, check_doc or
\* check_changelog, nothing is started after it, and the process exits with
\* status 1 and the message on the error stream.
UserErrorEndsRun ==
    raised.type = "UserError" =>
        /\ pc \in {"toplevel", "atexit", "exited"}
        /\ LastStarted \in {"parse_args", "check_doc", "check_changelog"}
        /\ Exited => /\ exit_status = 1
                     /\ caught
                     /\ stderr = <<[kind |-> "message", msg |-> raised.msg,
                                    arg |-> raised.arg]>>

\* What C6 says of status 0: only after every step through CheckChangelog
\* returned without raising.  parser.parse_args() exiting for -h refutes it.
Status0OnlyAfterAllSteps ==
    exit_status = 0 => (started = StepOrder /\ raised = NoException)

\* What C6 says of status 1: only from a UserError.  An exception the
\* __main__ block does not catch refutes it.
Status1OnlyFromUserError ==
    exit_status = 1 => raised.type = "UserError"

\* C6 as stated: a UserError ends the run with the message and status 1;
\* status 0 only if every step through CheckChangelog returned without
\* raising; status 1 only from a UserError.
C6_Original ==
    /\ UserErrorEndsRun
    /\ Status0OnlyAfterAllSteps
    /\ Status1OnlyFromUserError

\* C6 amended: a UserError ends the run with the message and status 1;
\* status 0 only if every step through CheckChangelog returned without
\* raising, or the argument parser exited for -h before anything else was
\* done; status 1 only from a UserError (caught, message only) or from an
\* exception the __main__ block does not catch (traceback), never from a run
\* in which nothing was raised.
C6_ExitStatus ==
    /\ UserErrorEndsRun
    /\ exit_status = 0 =>
          \/ started = StepOrder /\ raised = NoException
          \/ /\ raised = SystemExit(0)
             /\ argv.help
             /\ started = <<"parse_args">>
             /\ runs = <<>>
             /\ fs = fs_at_start
    /\ exit_status = 1 =>
          \/ raised.type = "UserError" /\ caught
          \/ /\ raised.type \notin {"none", "UserError", "SystemExit"}
             /\ ~caught
             /\ stderr = <<[kind |-> "traceback", msg |-> raised.type, arg |-> <<>>]>>

C6_Witness ==
    /\ Exited
    /\ raised = UserError("check-doc: No documentation build found", <<>>)
    /\ started = SubSeq(StepOrder, 1, 9)
    /\ exit_status = 1
    /\ caught

\* C7: if the git clone subprocess ends with a non-zero status the run ends
\* there: no later step is started and the exit status is not 0.
C7_CloneFailureTerminal ==
    clone_returncode > 0 =>
        /\ started = <<"parse_args", "create_workspace">>
        /\ exit_status # 0

\* C8: with debug set and --work-dir naming an existing directory, parse_args
\* raises no UserError and the run goes on to the clone; and with debug set
\* the workspace directory, temporary or given, is never removed: no cleanup
\* is registered and the directory is still there after exit.
C8_DebugKeepsWorkspace ==
    /\ (/\ Parsed
        /\ argv.debug
        /\ argv.work_dir = <<GivenDir>>
        /\ fs_at_start[GivenDir] = "dir"
        /\ started # <<>>)
       => /\ args # <<>> /\ args[1].work_dir = GivenDir
          /\ ~(LastStarted = "parse_args" /\ raised # NoException)
          /\ pc = "create_workspace" \/ Len(started) >= 2
    /\ (argv.debug /\ args # <<>>)
       => /\ atexit_handlers = <<>>
          /\ fs[args[1].work_dir] # "absent"
          /\ fs[args[1].work_dir] \in {"dir", fs_at_start[args[1].work_dir]}

C8_Witness ==
    /\ Parsed
    /\ argv.debug
    /\ argv.work_dir = <<GivenDir>>
    /\ fs_at_start[GivenDir] = "dir"
    /\ Exited
    /\ Len(runs) >= 1
    /\ runs[1].args[2] = "clone"
    /\ fs[GivenDir] = "dir"

\* C9: when the release type is not one of major, minor, patch, or remote or
\* branch is missing, the run ends in parse_args before any workspace action:
\* nothing is created at either path, no cleanup is registered, no subprocess
\* is run, and nothing after parse_args is started.
C9_BadArgsNoWorkspace ==
    (/\ \/ argv.release_type # <<>> /\ argv.release_type[1] \notin Choices
        \/ argv.remote = <<>>
        \/ argv.branch = <<>>
     /\ started # <<>>)
    => /\ started = <<"parse_args">>
       /\ raised.type = "SystemExit"
       /\ fs = fs_at_start
       /\ atexit_handlers = <<>>
       /\ args = <<>>
       /\ runs = <<>>
       /\ Exited => exit_status = raised.code

\* Scenario E.
C9_Witness ==
    /\ argv.release_type = <<"beta">>
    /\ ~argv.help
    /\ argv.work_dir = <<>>
    /\ Exited
    /\ exit_status = 2
    /\ fs[TmpDir] = "absent"

\* C10: when .bumpversion.cfg is missing, or has no [bumpversion] section or
\* no current_version key, check_doc and check_changelog end with an
\* exception that is not a UserError: the except clause does not run, no
\* message is printed in its place, and in check_doc nothing under
\* doc/_build/html has been examined, whatever is there.
C10_MissingVersionIsFault ==
    (/\ Len(started) >= 9
     /\ ~Readable(config)
     /\ LastStarted \in {"check_doc", "check_changelog"})
    => /\ raised.type \notin {"none", "UserError", "SystemExit"}
       /\ pc \in {"toplevel", "atexit", "exited"}
       /\ ~caught
       /\ \A i \in 1..Len(stderr) : stderr[i].kind # "message"
       /\ LastStarted = "check_doc" => examined = <<>>

C10_Witness ==
    /\ Len(started) = 9
    /\ ~config.file
    /\ ~doc.html_is_dir
    /\ Exited
    /\ raised.type = "KeyError"
    /\ ~caught

====
